---------------------------- MODULE Spec2Model ----------------------------
(***************************************************************************)
(* Model of the Mark2 skill (src/__init__.py): the volume handlers, the    *)
(* LED-ring feedback handlers and the auto-brightness scheduling.          *)
(*                                                                         *)
(* Volumes are Python floats in [0.0, 1.0]; the model keeps them as        *)
(* integers in units of 1/Unit, where Unit is a multiple of 63 (hardware   *)
(* readings are i/63), of 15 (register scaling) and of 12 (LED count), so  *)
(* that every value the handlers compute is exact.                         *)
(***************************************************************************)
EXTENDS Integers, Sequences, FiniteSets, TLC

VARIABLES
    volume,          \* self.volume, in 1/Unit
    muted,           \* self.muted
    show_volume,     \* self.show_volume
    speaking,        \* self.speaking
    showing_volume,  \* self.showing_volume: "unset" until assigned, then "False"
    hwReg,           \* last register value handed to i2cset (None before)
    reply,           \* last response emitted by on_volume_get
    mode,            \* animation shown by the pixel ring
    palette,         \* colour palette last given to the pixel ring
    volLeds,         \* LED count last given to pixel_ring.set_volume
    last,            \* history: the event handled last, [name, arg]; arg is the
                     \*          handler name of a handler event, the message
                     \*          data of a volume-set, duckAt of an unduck
    duckBase,        \* history: level before the first duck of a run of
                     \*          duck/unduck calls (None outside such a run)
    duckAt,          \* history: level at the latest duck when only volume-set
                     \*          calls followed it (None otherwise)
    scen,            \* history: length of the prefix of Scenario handled so
                     \*          far, -1 once the events departed from it
    now,             \* the clock (arrow.now().timestamp), in hours
    auto_brightness, \* self.auto_brightness: "unset", "True" or "False"
    timers,          \* the event scheduler: for each event name the list of
                     \*          pending entries [at, level]
    inflight,        \* fired scheduler events not yet handled, [name, level]
    brightness,      \* level last given to set_screen_brightness (None before)
    spoken,          \* dialog last spoken, [dialog, val]
    leds,            \* Led.leds: the 12 colours of the strip, position x of
                     \*          the code at index x + 1
    cmd,             \* the numbers of the command _update_leds ran last
    running          \* volume handlers running on threads of their own: for
                     \*          each thread [op, pc, pct], pc the statement
                     \*          it executes next, pct its local value

volVars  == <<volume, muted, show_volume, hwReg, reply>>
ringVars == <<speaking, showing_volume, mode, palette, volLeds>>
histVars == <<last, duckBase, duckAt, scen>>
devVars  == <<volVars, ringVars, histVars>>
solarVars == <<now, auto_brightness, timers, inflight, brightness, spoken>>
ledVars == <<leds, cmd>>

-----------------------------------------------------------------------------
(* Numbers *)

HwMax == 63
RegScale == 15
RegBase == 15
num_leds == 12
main_blue == 2271216
tertiary_blue == 5103871
tertiary_green == 4250544
Unit == HwMax * 20

Half == Unit \div 2

None == 0 - 1

\* raw values the amplifier register may read as (int(vol, 16))
HwReadings == {0, 21, 63, 200}

\* message.data of mycroft.volume.set: has = FALSE is a message without the
\* "percent" key; percent is in 1/Unit; show is the "show" key of the
\* message (FALSE also when the key is absent), which the handler never reads
Percents == {0 - Half, 0, Unit \div 4, Unit, Unit + Half}
VolumeSetData ==
    {[has |-> TRUE, percent |-> p, show |-> sh] :
        p \in Percents, sh \in BOOLEAN}
        \cup {[has |-> FALSE, percent |-> 0, show |-> sh] : sh \in BOOLEAN}

-----------------------------------------------------------------------------
(* Strings that the code searches are sequences of characters *)

Mark2Name == <<"M","a","r","k","2">>
UpdateDisplay ==
    <<"T","i","m","e","S","k","i","l","l",".","u","p","d","a","t","e","_",
      "d","i","s","p","l","a","y">>
WeatherSkill == <<"W","e","a","t","h","e","r","S","k","i","l","l">>
Mark2Handler ==
    Mark2Name \o <<".","h","a","n","d","l","e","_","b","r","i","g","h","t",
                   "n","e","s","s">>

skip_list == <<Mark2Name, UpdateDisplay>>

\* values of message.data["handler"]; <<>> is the default ''
Handlers == {WeatherSkill, Mark2Handler, UpdateDisplay, <<>>}

\* Python's  sub in s  on strings
Contains(sub, s) ==
    \E i \in 0..(Len(s) - Len(sub)) : SubSeq(s, i + 1, i + Len(sub)) = sub

_skip_handler_first_entry(handler) == Contains(skip_list[1], handler)
_skip_handler(handler) ==
    \E k \in 1..Len(skip_list) : Contains(skip_list[k], handler)

-----------------------------------------------------------------------------
(* Volume *)

\* str(int(15 * pct) + 15)
HwLevel(pct) == ((RegScale * pct) \div Unit) + RegBase

set_hardware_volume(pct) == hwReg' = HwLevel(pct)

\* the value get_hardware_volume leaves in self.volume for a reading raw
get_hardware_volume(raw) ==
    LET i1 == IF raw < 0 THEN 0 ELSE raw
        i2 == IF i1 > HwMax THEN HwMax ELSE i1
    IN  (i2 * Unit) \div HwMax

\* the events of the end-to-end scenario of the feedback design
Scenario ==
    << [name |-> "listen_start", arg |-> <<>>],
       [name |-> "listen_end", arg |-> <<>>],
       [name |-> "handler_start", arg |-> WeatherSkill],
       [name |-> "audio_start", arg |-> <<>>],
       [name |-> "handler_complete", arg |-> WeatherSkill],
       [name |-> "audio_end", arg |-> <<>>] >>

\* bookkeeping shared by all handlers: remember the event and follow Scenario
Record(name, arg) ==
    /\ last' = [name |-> name, arg |-> arg]
    /\ scen' = IF /\ scen >= 0
                  /\ scen < Len(Scenario)
                  /\ Scenario[scen + 1].name = name
                  /\ Scenario[scen + 1].arg = arg
               THEN scen + 1
               ELSE None

\* message.data.get("percent", 0.5)
PercentOf(data) == IF data.has THEN data.percent ELSE Half

on_volume_set_no_upper_clamp(data) ==
    LET v0 == PercentOf(data)
        v1 == IF v0 < 0 THEN 0 ELSE v0
    IN  /\ volume' = v1
        /\ muted' = FALSE
        /\ set_hardware_volume(v1)
        /\ show_volume' = TRUE
        /\ duckBase' = None
        /\ UNCHANGED <<duckAt, reply, ringVars>>
        /\ Record("volume_set", data)
        /\ UNCHANGED <<solarVars, running, ledVars>>

on_volume_set(data) ==
    LET v0 == PercentOf(data)
        v1 == IF v0 < 0 THEN 0 ELSE v0
        v2 == IF v1 > Unit THEN Unit ELSE v1
    IN  /\ volume' = v2
        /\ muted' = FALSE
        /\ set_hardware_volume(v2)
        /\ show_volume' = TRUE
        /\ duckBase' = None
        /\ UNCHANGED <<duckAt, reply, ringVars>>
        /\ Record("volume_set", data)
        /\ UNCHANGED <<solarVars, running, ledVars>>

\* show is message.data.get('show', False)
on_volume_get(show) ==
    /\ reply' = [sent |-> TRUE, percent |-> volume, muted |-> muted]
    /\ show_volume' = show
    /\ duckBase' = None
    /\ duckAt' = None
    /\ UNCHANGED <<volume, muted, hwReg, ringVars>>
    /\ Record("volume_get", <<>>)
    /\ UNCHANGED <<solarVars, running, ledVars>>

on_volume_duck_zeroes_level ==
    /\ muted' = TRUE
    /\ volume' = 0
    /\ set_hardware_volume(0)
    /\ duckBase' = IF duckBase = None THEN volume ELSE duckBase
    /\ duckAt' = volume
    /\ UNCHANGED <<show_volume, reply, ringVars>>
    /\ Record("volume_duck", <<>>)
    /\ UNCHANGED <<solarVars, running, ledVars>>

on_volume_duck ==
    /\ muted' = TRUE
    /\ set_hardware_volume(0)
    /\ duckBase' = IF duckBase = None THEN volume ELSE duckBase
    /\ duckAt' = volume
    /\ UNCHANGED <<volume, show_volume, reply, ringVars>>
    /\ Record("volume_duck", <<>>)
    /\ UNCHANGED <<solarVars, running, ledVars>>

on_volume_unduck_stays_silent ==
    /\ muted' = FALSE
    /\ set_hardware_volume(0)
    /\ duckAt' = None
    /\ UNCHANGED <<volume, show_volume, reply, ringVars, duckBase>>
    /\ Record("volume_unduck", duckAt)
    /\ UNCHANGED <<solarVars, running, ledVars>>

on_volume_unduck ==
    /\ muted' = FALSE
    /\ set_hardware_volume(volume)
    /\ duckAt' = None
    /\ UNCHANGED <<volume, show_volume, reply, ringVars, duckBase>>
    /\ Record("volume_unduck", duckAt)
    /\ UNCHANGED <<solarVars, running, ledVars>>

-----------------------------------------------------------------------------
(* Volume handlers delivered at the same time: the skill takes no lock, so   *)
(* handlers running on different threads interleave statement by statement  *)

MaxThreads == 2
Threads == 1..MaxThreads

Idle == [op |-> "idle", pc |-> "done", pct |-> None]

\* message.data of the volume-set messages delivered concurrently
ConcurrentSetData == {d \in VolumeSetData : d.has /\ ~d.show /\ d.percent >= 0}

\* thread t starts handling a message: the handler's local vol is computed
\* from the message alone (lines 222-224)
Deliver(t, op, data) ==
    /\ running[t].op = "idle"
    /\ \A u \in 1..(t - 1) : running[u].op # "idle"
    /\ running' = [running EXCEPT ![t] =
           CASE op = "set" ->
                  LET v0 == PercentOf(data)
                      v1 == IF v0 < 0 THEN 0 ELSE v0
                      v2 == IF v1 > Unit THEN Unit ELSE v1
                  IN  [op |-> "set", pc |-> "volume", pct |-> v2]
             [] op = "duck" -> [op |-> "duck", pc |-> "muted", pct |-> 0]
             [] op = "unduck" -> [op |-> "unduck", pc |-> "muted",
                                  pct |-> None]]
    /\ UNCHANGED <<volVars, ringVars, duckBase, duckAt, solarVars, ledVars>>
    /\ Record("deliver", op)

\* one statement of on_volume_set on thread t
on_volume_set_step(t) ==
    LET th == running[t]
    IN  /\ th.op = "set"
        /\ th.pc # "done"
        /\ CASE th.pc = "volume" ->
                   /\ volume' = th.pct
                   /\ running' = [running EXCEPT ![t].pc = "muted"]
                   /\ UNCHANGED <<muted, hwReg, show_volume>>
              [] th.pc = "muted" ->
                   /\ muted' = FALSE
                   /\ running' = [running EXCEPT ![t].pc = "write"]
                   /\ UNCHANGED <<volume, hwReg, show_volume>>
              [] th.pc = "write" ->
                   /\ set_hardware_volume(th.pct)
                   /\ running' = [running EXCEPT ![t].pc = "show"]
                   /\ UNCHANGED <<volume, muted, show_volume>>
              [] th.pc = "show" ->
                   /\ show_volume' = TRUE
                   /\ running' = [running EXCEPT ![t].pc = "done"]
                   /\ UNCHANGED <<volume, muted, hwReg>>
        /\ UNCHANGED <<reply, ringVars, duckBase, duckAt, solarVars, ledVars>>
        /\ Record("step", t)

\* one statement of on_volume_duck on thread t
on_volume_duck_step(t) ==
    LET th == running[t]
    IN  /\ th.op = "duck"
        /\ th.pc # "done"
        /\ CASE th.pc = "muted" ->
                   /\ muted' = TRUE
                   /\ running' = [running EXCEPT ![t].pc = "write"]
                   /\ UNCHANGED hwReg
              [] th.pc = "write" ->
                   /\ set_hardware_volume(th.pct)
                   /\ running' = [running EXCEPT ![t].pc = "done"]
                   /\ UNCHANGED muted
        /\ UNCHANGED <<volume, show_volume, reply, ringVars, duckBase, duckAt,
                       solarVars, ledVars>>
        /\ Record("step", t)

\* one statement of on_volume_unduck on thread t; the argument self.volume
\* is read before set_hardware_volume runs i2cset
on_volume_unduck_step(t) ==
    LET th == running[t]
    IN  /\ th.op = "unduck"
        /\ th.pc # "done"
        /\ CASE th.pc = "muted" ->
                   /\ muted' = FALSE
                   /\ running' = [running EXCEPT ![t].pc = "read"]
                   /\ UNCHANGED hwReg
              [] th.pc = "read" ->
                   /\ running' = [running EXCEPT ![t].pc = "write",
                                                 ![t].pct = volume]
                   /\ UNCHANGED <<muted, hwReg>>
              [] th.pc = "write" ->
                   /\ set_hardware_volume(th.pct)
                   /\ running' = [running EXCEPT ![t].pc = "done"]
                   /\ UNCHANGED muted
        /\ UNCHANGED <<volume, show_volume, reply, ringVars, duckBase, duckAt,
                       solarVars, ledVars>>
        /\ Record("step", t)

-----------------------------------------------------------------------------
(* LED ring feedback *)

on_handler_audio_start_always_speaks ==
    /\ speaking' = TRUE
    /\ palette' = <<main_blue, tertiary_blue>>
    /\ mode' = "Speaking"
    /\ UNCHANGED <<volLeds, showing_volume, volVars, duckBase, duckAt>>
    /\ Record("audio_start", <<>>)
    /\ UNCHANGED <<solarVars, running, ledVars>>
on_handler_audio_start ==
    /\ IF show_volume
       THEN /\ volLeds' = (volume * num_leds) \div Unit
            /\ mode' = "VolumeDisplay"
            /\ UNCHANGED <<speaking, palette>>
       ELSE /\ speaking' = TRUE
            /\ palette' = <<main_blue, tertiary_blue>>
            /\ mode' = "Speaking"
            /\ UNCHANGED volLeds
    /\ UNCHANGED <<showing_volume, volVars, duckBase, duckAt>>
    /\ Record("audio_start", <<>>)
    /\ UNCHANGED <<solarVars, running, ledVars>>

on_handler_audio_end ==
    /\ speaking' = FALSE
    /\ showing_volume' = "False"
    /\ mode' = "Idle"
    /\ UNCHANGED <<palette, volLeds, volVars, duckBase, duckAt>>
    /\ Record("audio_end", <<>>)
    /\ UNCHANGED <<solarVars, running, ledVars>>

on_handler_started_no_skip(handler) ==
    /\ palette' = <<main_blue, tertiary_green>>
    /\ mode' = "Thinking"
    /\ UNCHANGED <<speaking, showing_volume, volLeds, volVars, duckBase, duckAt>>
    /\ Record("handler_start", handler)
    /\ UNCHANGED <<solarVars, running, ledVars>>

on_handler_started(handler) ==
    /\ IF _skip_handler(handler)
       THEN UNCHANGED <<palette, mode>>
       ELSE /\ palette' = <<main_blue, tertiary_green>>
            /\ mode' = "Thinking"
    /\ UNCHANGED <<speaking, showing_volume, volLeds, volVars, duckBase, duckAt>>
    /\ Record("handler_start", handler)
    /\ UNCHANGED <<solarVars, running, ledVars>>

on_handler_complete_always_off(handler) ==
    /\ IF _skip_handler(handler)
       THEN UNCHANGED mode
       ELSE mode' = "Idle"
    /\ UNCHANGED <<speaking, showing_volume, palette, volLeds, volVars,
                   duckBase, duckAt>>
    /\ Record("handler_complete", handler)
    /\ UNCHANGED <<solarVars, running, ledVars>>

on_handler_complete(handler) ==
    /\ IF _skip_handler(handler)
       THEN UNCHANGED mode
       ELSE IF ~speaking /\ ~show_volume
            THEN mode' = "Idle"
            ELSE UNCHANGED mode
    /\ UNCHANGED <<speaking, showing_volume, palette, volLeds, volVars,
                   duckBase, duckAt>>
    /\ Record("handler_complete", handler)
    /\ UNCHANGED <<solarVars, running, ledVars>>

handle_listener_started ==
    /\ palette' = <<main_blue, main_blue>>
    /\ mode' = "Listening"
    /\ UNCHANGED <<speaking, showing_volume, volLeds, volVars, duckBase, duckAt>>
    /\ Record("listen_start", <<>>)
    /\ UNCHANGED <<solarVars, running, ledVars>>

handle_listener_ended ==
    /\ mode' = "Idle"
    /\ UNCHANGED <<speaking, showing_volume, palette, volLeds, volVars,
                   duckBase, duckAt>>
    /\ Record("listen_end", <<>>)
    /\ UNCHANGED <<solarVars, running, ledVars>>

-----------------------------------------------------------------------------
(* Brightness texts *)

Digits == <<"0","1","2","3","4","5","6","7","8","9">>
IsDigit(c) == \E i \in 1..10 : Digits[i] = c
DigitVal(c) == (CHOOSE i \in 1..10 : Digits[i] = c) - 1

\* str.strip()
RECURSIVE StripLeft(_)
StripLeft(s) ==
    IF s # <<>> /\ Head(s) = " " THEN StripLeft(Tail(s)) ELSE s
RECURSIVE StripRight(_)
StripRight(s) ==
    IF s # <<>> /\ s[Len(s)] = " "
    THEN StripRight(SubSeq(s, 1, Len(s) - 1)) ELSE s
Strip(s) == StripRight(StripLeft(s))

\* str.replace(sub, "")
RECURSIVE Remove(_, _)
Remove(s, sub) ==
    IF Len(s) < Len(sub) THEN s
    ELSE IF SubSeq(s, 1, Len(sub)) = sub
         THEN Remove(SubSeq(s, Len(sub) + 1, Len(s)), sub)
         ELSE <<Head(s)>> \o Remove(Tail(s), sub)

RECURSIVE DigitsValue(_)
DigitsValue(s) ==
    IF s = <<>> THEN 0
    ELSE 10 * DigitsValue(SubSeq(s, 1, Len(s) - 1)) + DigitVal(s[Len(s)])

\* int(text): [ok |-> FALSE] stands for the ValueError
PyInt(text) ==
    LET t == Strip(text)
        neg == t # <<>> /\ Head(t) = "-"
        signed == t # <<>> /\ Head(t) \in {"-", "+"}
        d == IF signed THEN Tail(t) ELSE t
    IN  IF d # <<>> /\ \A k \in 1..Len(d) : IsDigit(d[k])
        THEN [ok |-> TRUE,
              val |-> IF neg THEN 0 - DigitsValue(d) ELSE DigitsValue(d)]
        ELSE [ok |-> FALSE, val |-> 0]

\* int(x / y) for a float quotient: truncation toward zero
PyTrunc(x, y) == IF x >= 0 THEN x \div y ELSE 0 - ((0 - x) \div y)

PercentSign == <<"%">>
PercentWord == <<"p","e","r","c","e","n","t">>
FullName == <<"f","u","l","l">>
HalfName == <<"h","a","l","f">>
AutoName == <<"a","u","t","o">>

\* self.brightness_dict, read from the skill's brightness.levels table
brightness_dict == (FullName :> 100) @@ (HalfName :> 50) @@ (AutoName :> (0 - 1))

\* mycroft.util.parse.normalize on the texts of Brightnesses: the words
\* joined by single spaces
normalize(text) == Strip(text)

MaxLevel == 30
MaxPercent == 100

percent_to_level_int_division(percent) == (percent \div MaxPercent) * MaxLevel
percent_to_level(percent) == PyTrunc(percent * MaxLevel, MaxPercent)

parse_brightness_level_up_to_30(text) ==
    LET name == normalize(text)
        fail == [ok |-> FALSE, val |-> 0]
    IN  IF name \in DOMAIN brightness_dict
        THEN [ok |-> TRUE, val |-> brightness_dict[name]]
        ELSE IF Contains(PercentSign, text)
        THEN PyInt(Strip(Remove(text, PercentSign)))
        ELSE IF Contains(PercentWord, text)
        THEN PyInt(Strip(Remove(text, PercentWord)))
        ELSE LET i == PyInt(text)
             IN  IF ~i.ok THEN fail
                 ELSE IF i.val < 0 \/ i.val > MaxPercent THEN fail
                 ELSE IF i.val <= MaxLevel
                      THEN [ok |-> TRUE,
                            val |-> PyTrunc(i.val * MaxPercent, MaxLevel)]
                      ELSE i
\* [ok |-> FALSE] stands for the result None
parse_brightness(text) ==
    LET name == normalize(text)
        fail == [ok |-> FALSE, val |-> 0]
    IN  IF name \in DOMAIN brightness_dict
        THEN [ok |-> TRUE, val |-> brightness_dict[name]]
        ELSE IF Contains(PercentSign, text)
        THEN PyInt(Strip(Remove(text, PercentSign)))
        ELSE IF Contains(PercentWord, text)
        THEN PyInt(Strip(Remove(text, PercentWord)))
        ELSE LET i == PyInt(text)
             IN  IF ~i.ok THEN fail
                 ELSE IF i.val < 0 \/ i.val > MaxPercent THEN fail
                 ELSE IF i.val < MaxLevel
                      THEN [ok |-> TRUE,
                            val |-> PyTrunc(i.val * MaxPercent, MaxLevel)]
                      ELSE i

\* the decimal text of an integer, as a user's request spells it
RECURSIVE NatText(_)
NatText(n) ==
    IF n < 10 THEN <<Digits[n + 1]>>
    ELSE NatText(n \div 10) \o <<Digits[(n % 10) + 1]>>
IntText(i) == IF i < 0 THEN <<"-">> \o NatText(0 - i) ELSE NatText(i)

MaxNumber == 105

\* the numbers of the requests parsed: both sides of 0..MaxPercent
Numbers == (MaxPercent - MaxNumber)..MaxNumber

\* requests that are no number
OtherTexts == {FullName, HalfName, AutoName, <<"d","a","r","k">>,
               <<"x","%">>, <<" ","4","0"," ">>}

\* one call percent = self.parse_brightness(text); the request and its
\* result are remembered
parse(form, number, text) ==
    /\ Record("parse", [form |-> form, number |-> number, text |-> text,
                        result |-> parse_brightness(text)])
    /\ UNCHANGED <<volVars, ringVars, duckBase, duckAt, solarVars, running, ledVars>>

ParsePlain == \E i \in Numbers : parse("plain", i, IntText(i))
ParseSign == \E i \in Numbers : parse("sign", i, IntText(i) \o PercentSign)
ParseWord ==
    \E i \in Numbers : parse("word", i, IntText(i) \o <<" ">> \o PercentWord)
ParseOther == \E text \in OtherTexts : parse("other", 0, text)
\* texts of a brightness request
Brightnesses ==
    { <<"5","0","%">>, <<"1","5","0","%">>, <<"1","5">>, AutoName,
      <<"d","a","r","k">> }

-----------------------------------------------------------------------------
(* Auto brightness *)

DayLen == 24
SunriseLevel == 20
NoonLevel == 30
SunsetLevel == 5

SlotNames == <<"Sunrise", "Noon", "Sunset">>
Slots == {"Sunrise", "Noon", "Sunset"}

\* hour of the day of each solar event, as astral computes it for the
\* location
SunHour == [n \in Slots |->
              CASE n = "Sunrise" -> 6 [] n = "Noon" -> 12 [] n = "Sunset" -> 18]

Midnight(t) == (t \div DayLen) * DayLen

\* today's (datetime, level) per slot
_get_auto_time(t) ==
    [n \in Slots |->
        [at |-> Midnight(t) + SunHour[n],
         level |-> CASE n = "Sunrise" -> SunriseLevel
                     [] n = "Noon" -> NoonLevel
                     [] n = "Sunset" -> SunsetLevel]]

\* MycroftSkill.schedule_event: one more entry under the name
schedule_event(tm, name, at, level) ==
    [tm EXCEPT ![name] = Append(@, [at |-> at, level |-> level])]

cancel_scheduled_event_keeps(tm, name) == tm
\* MycroftSkill.cancel_scheduled_event: every entry under the name goes
cancel_scheduled_event(tm, name) == [tm EXCEPT ![name] = <<>>]

\* the scheduler's table after schedule_brightness(time_of_day, pair)
schedule_brightness(tm, time_of_day, pair) ==
    IF now > pair.at
    THEN schedule_event(tm, time_of_day, pair.at + DayLen, pair.level)
    ELSE schedule_event(tm, time_of_day, pair.at, pair.level)

Abs(x) == IF x < 0 THEN 0 - x ELSE x

RECURSIVE Nearest_last_tie(_, _)
Nearest_last_tie(auto_time, k) ==
    IF k = 0 THEN [dist |-> None, level |-> None]
    ELSE LET prev == Nearest_last_tie(auto_time, k - 1)
             pair == auto_time[SlotNames[k]]
             d == Abs(now - pair.at)
         IN  IF prev.dist = None \/ d <= prev.dist
             THEN [dist |-> d, level |-> pair.level]
             ELSE prev
\* nearest_time_to_now after the first k slots of the loop: [dist, level];
\* dist = None stands for float('inf')
RECURSIVE Nearest(_, _)
Nearest(auto_time, k) ==
    IF k = 0 THEN [dist |-> None, level |-> None]
    ELSE LET prev == Nearest(auto_time, k - 1)
             pair == auto_time[SlotNames[k]]
             d == Abs(now - pair.at)
         IN  IF prev.dist = None \/ d < prev.dist
             THEN [dist |-> d, level |-> pair.level]
             ELSE prev

RECURSIVE ScheduleAll(_, _, _)
ScheduleAll(tm, auto_time, k) ==
    IF k = 0 THEN tm
    ELSE schedule_brightness(ScheduleAll(tm, auto_time, k - 1),
                             SlotNames[k], auto_time[SlotNames[k]])

\* the effect of handle_auto_brightness on the solar state
AutoBrightnessEffect ==
    LET auto_time == _get_auto_time(now)
    IN  /\ auto_brightness' = "True"
        /\ timers' = ScheduleAll(timers, auto_time, Len(SlotNames))
        /\ brightness' = Nearest(auto_time, Len(SlotNames)).level
        /\ UNCHANGED <<now, inflight, spoken>>

MaxTimers == 2
MaxInflight == 1
MaxTime == 24

\* room in the scheduler's lists for one more entry per name
Room == \A n \in Slots : Len(timers[n]) < MaxTimers

\* the intent brightness.auto.intent
handle_auto_brightness ==
    /\ Room
    /\ AutoBrightnessEffect
    /\ UNCHANGED <<volVars, ringVars, duckBase, duckAt, running, ledVars>>
    /\ Record("auto_brightness", <<>>)

\* set_screen_brightness(level, speak=True)
set_screen_brightness(level) ==
    /\ brightness' = level
    /\ spoken' = [dialog |-> "brightness.set",
                  val |-> PyTrunc(level * MaxPercent, MaxLevel)]

\* handle_brightness with message.data["brightness"] = text
_set_brightness(text) ==
    LET percent == parse_brightness(text)
    IN  /\ IF ~percent.ok
           THEN /\ spoken' = [dialog |-> "brightness.not.found.final",
                              val |-> 0]
                /\ UNCHANGED <<now, auto_brightness, timers, inflight,
                               brightness>>
           ELSE IF percent.val = 0 - 1
           THEN Room /\ AutoBrightnessEffect
           ELSE /\ auto_brightness' = "False"
                /\ set_screen_brightness(percent_to_level(percent.val))
                /\ UNCHANGED <<now, timers, inflight>>
        /\ UNCHANGED <<volVars, ringVars, duckBase, duckAt, running, ledVars>>
        /\ Record("set_brightness", text)

\* the levels of the display
Levels == 0..MaxLevel

\* set_screen_brightness(level, speak=True) for a level of the display
screen_brightness(level) ==
    /\ set_screen_brightness(level)
    /\ UNCHANGED <<now, auto_brightness, timers, inflight>>
    /\ UNCHANGED <<volVars, ringVars, duckBase, duckAt, running, ledVars>>
    /\ Record("screen_brightness", level)

\* the text "<val>%" of the percentage the skill spoke last
SpokenPercent == IntText(spoken.val) \o PercentSign

\* a request for the percentage just spoken
request_spoken ==
    /\ spoken.dialog = "brightness.set"
    /\ _set_brightness(SpokenPercent)
\* sequence s without its i-th element
Without(s, i) == SubSeq(s, 1, i - 1) \o SubSeq(s, i + 1, Len(s))

\* the event scheduler finds entry i of name due and emits its message
TimerDue(name, i) ==
    /\ timers[name][i].at <= now
    /\ Len(inflight) < MaxInflight
    /\ timers' = [timers EXCEPT ![name] = Without(@, i)]
    /\ inflight' = Append(inflight,
                          [name |-> name, level |-> timers[name][i].level])
    /\ UNCHANGED <<now, auto_brightness, brightness, spoken>>
    /\ UNCHANGED <<volVars, ringVars, duckBase, duckAt, running, ledVars>>
    /\ Record("timer_due", name)

_handle_screen_brightness_event_unguarded(i) ==
    LET time_of_day == inflight[i].name
        level == inflight[i].level
    IN  /\ inflight' = Without(inflight, i)
        /\ brightness' = level
        /\ timers' = schedule_brightness(
                         cancel_scheduled_event(timers, time_of_day),
                         time_of_day,
                         _get_auto_time(now)[time_of_day])
        /\ UNCHANGED <<now, auto_brightness, spoken>>
        /\ UNCHANGED <<volVars, ringVars, duckBase, duckAt, running, ledVars>>
        /\ Record("slot_fired", time_of_day)
\* the handler of message i of the fired events
_handle_screen_brightness_event(i) ==
    LET time_of_day == inflight[i].name
        level == inflight[i].level
    IN  /\ inflight' = Without(inflight, i)
        /\ IF auto_brightness = "True"
           THEN /\ brightness' = level
                /\ timers' = schedule_brightness(
                                 cancel_scheduled_event(timers, time_of_day),
                                 time_of_day,
                                 _get_auto_time(now)[time_of_day])
           ELSE UNCHANGED <<brightness, timers>>
        /\ UNCHANGED <<now, auto_brightness, spoken>>
        /\ UNCHANGED <<volVars, ringVars, duckBase, duckAt, running, ledVars>>
        /\ Record("slot_fired", time_of_day)

\* the clock is read every TickHours hours
TickHours == DayLen \div 8

Tick ==
    /\ now + TickHours <= MaxTime
    /\ now' = now + TickHours
    /\ UNCHANGED <<auto_brightness, timers, inflight, brightness, spoken>>
    /\ UNCHANGED <<volVars, ringVars, duckBase, duckAt, running, ledVars>>
    /\ Record("tick", <<>>)

-----------------------------------------------------------------------------
(* The LED strip of the SJ201 (sj201_revA/led.py) *)

Led_num_leds == 12

BLACK == <<0, 0, 0>>
RED == <<255, 0, 0>>
GREEN == <<0, 255, 0>>
BLUE == <<0, 0, 255>>
\* the colours given to fill_leds and set_led
Colors == {BLACK, RED, GREEN}

\* the numbers _update_leds joins into its command: the colours flattened
RECURSIVE Flatten(_)
Flatten(l) == IF l = <<>> THEN <<>> ELSE Head(l) \o Flatten(Tail(l))

_update_leds(l) == cmd' = Flatten(l)

\* list((color,) * self.num_leds)
Filled(color) == [x \in 1..Led_num_leds |-> color]

\* the 12-element lists given to set_leds
InputLeds ==
    { [x \in 1..Led_num_leds |->
          CASE x % 3 = 1 -> RED [] x % 3 = 2 -> GREEN [] OTHER -> BLUE],
      [x \in 1..Led_num_leds |->
          IF x <= 3 THEN RED ELSE IF x <= 6 THEN GREEN
          ELSE IF x <= 9 THEN BLUE ELSE BLACK] }

MaxWhich == 13

\* the LED numbers given to set_led and get_led: below, around and past
\* the ends of the strip
Whiches == ((0 - 1)..2) \cup ((Led_num_leds - 1)..MaxWhich)

\* the for loop of set_leds after its first k rounds
RECURSIVE Copied(_, _, _)
Copied(l, input_leds, k) ==
    IF k = 0 THEN l
    ELSE [Copied(l, input_leds, k - 1) EXCEPT ![k] = input_leds[k]]

fill_leds(color) ==
    /\ leds' = Filled(color)
    /\ _update_leds(leds')
    /\ UNCHANGED <<volVars, ringVars, duckBase, duckAt, solarVars, running>>
    /\ Record("fill_leds", color)

set_leds(input_leds) ==
    /\ leds' = Copied(leds, input_leds, Led_num_leds)
    /\ _update_leds(leds')
    /\ UNCHANGED <<volVars, ringVars, duckBase, duckAt, solarVars, running>>
    /\ Record("set_leds", input_leds)

set_led_one_based(which, color) ==
    /\ leds' = [leds EXCEPT ![((which - 1) % Led_num_leds) + 1] = color]
    /\ _update_leds(leds')
    /\ UNCHANGED <<volVars, ringVars, duckBase, duckAt, solarVars, running>>
    /\ Record("set_led", [which |-> which, color |-> color])

set_led(which, color) ==
    /\ leds' = [leds EXCEPT ![(which % Led_num_leds) + 1] = color]
    /\ _update_leds(leds')
    /\ UNCHANGED <<volVars, ringVars, duckBase, duckAt, solarVars, running>>
    /\ Record("set_led", [which |-> which, color |-> color])

\* the colour returned is remembered with the call
get_led(which) ==
    /\ UNCHANGED <<leds, cmd>>
    /\ UNCHANGED <<volVars, ringVars, duckBase, duckAt, solarVars, running>>
    /\ Record("get_led", [which |-> which,
                          color |-> leds[(which % Led_num_leds) + 1]])

\* Led.__init__
InitLed ==
    /\ leds = Filled(BLACK)
    /\ cmd = <<>>

-----------------------------------------------------------------------------
(* The skill after __init__ *)

InitSolar ==
    /\ now = 0
    /\ auto_brightness = "unset"
    /\ timers = [n \in Slots |-> <<>>]
    /\ inflight = <<>>
    /\ brightness = None
    /\ spoken = [dialog |-> "none", val |-> 0]

InitDevice ==
    /\ volume \in {get_hardware_volume(r) : r \in HwReadings} \cup {Half}
    /\ muted = FALSE
    /\ show_volume = FALSE
    /\ speaking = FALSE
    /\ showing_volume = "unset"
    /\ hwReg = None
    /\ reply = [sent |-> FALSE, percent |-> 0, muted |-> FALSE]
    /\ mode = "Idle"
    /\ palette = <<0, 0>>
    /\ volLeds = 0
    /\ last = [name |-> "init", arg |-> <<>>]
    /\ duckBase = None
    /\ duckAt = None
    /\ scen = 0
    /\ running = [t \in Threads |-> Idle]

VolumeSet == \E data \in VolumeSetData : on_volume_set(data)
VolumeGet == \E show \in BOOLEAN : on_volume_get(show)
HandlerStarted == \E h \in Handlers : on_handler_started(h)
HandlerComplete == \E h \in Handlers : on_handler_complete(h)

\* the volume controller: mycroft.volume.* events
NextVolume ==
    \/ VolumeSet
    \/ VolumeGet
    \/ on_volume_duck
    \/ on_volume_unduck

\* the LED ring: the events whose handlers read or write the ring and the
\* flags it depends on (ducking touches neither)
NextFeedback ==
    \/ VolumeSet
    \/ VolumeGet
    \/ on_handler_audio_start
    \/ on_handler_audio_end
    \/ HandlerStarted
    \/ HandlerComplete
    \/ handle_listener_started
    \/ handle_listener_ended

SetBrightness == \E text \in Brightnesses : _set_brightness(text)
SlotDue == \E n \in Slots : \E i \in 1..Len(timers[n]) : TimerDue(n, i)
SlotFired == \E i \in 1..Len(inflight) : _handle_screen_brightness_event(i)

\* the brightness intents, the event scheduler and the clock
NextSolar ==
    \/ handle_auto_brightness
    \/ SetBrightness
    \/ SlotDue
    \/ SlotFired
    \/ Tick

\* the parser of brightness requests, one call after another
NextParse ==
    \/ ParsePlain
    \/ ParseSign
    \/ ParseWord
    \/ ParseOther
vars == <<devVars, solarVars, running, ledVars>>

Init == InitDevice /\ InitSolar /\ InitLed

SpecVolume == Init /\ [][NextVolume]_vars

SpecFeedback == Init /\ [][NextFeedback]_vars

\* the brightness handlers read none of the volume state: one initial volume,
\* that of a failed hardware read
InitHalf == Init /\ volume = Half

DeliverSet ==
    \E t \in Threads : \E data \in ConcurrentSetData : Deliver(t, "set", data)
DeliverDuck == \E t \in Threads : Deliver(t, "duck", [has |-> FALSE])
DeliverUnduck == \E t \in Threads : Deliver(t, "unduck", [has |-> FALSE])
VolumeSetStep == \E t \in Threads : on_volume_set_step(t)
VolumeDuckStep == \E t \in Threads : on_volume_duck_step(t)
VolumeUnduckStep == \E t \in Threads : on_volume_unduck_step(t)

\* volume messages handled on threads of their own
NextThreads ==
    \/ DeliverSet
    \/ DeliverDuck
    \/ DeliverUnduck
    \/ VolumeSetStep
    \/ VolumeDuckStep
    \/ VolumeUnduckStep

SpecThreads == InitHalf /\ [][NextThreads]_vars

ScreenBrightness == \E level \in Levels : screen_brightness(level)
RequestLevel == \E level \in Levels : _set_brightness(IntText(level))

\* levels shown and spoken as percentages, percentages and levels requested
NextLevels ==
    \/ ScreenBrightness
    \/ request_spoken
    \/ RequestLevel

SpecLevels == InitHalf /\ [][NextLevels]_vars
FillLeds == \E color \in Colors : fill_leds(color)
SetLeds == \E input_leds \in InputLeds : set_leds(input_leds)
SetLed == \E which \in Whiches : \E color \in Colors : set_led(which, color)
GetLed == \E which \in Whiches : get_led(which)

\* calls on the Led object
NextLed ==
    \/ FillLeds
    \/ SetLeds
    \/ SetLed
    \/ GetLed

SpecLed == InitHalf /\ [][NextLed]_vars

SpecParse == InitHalf /\ [][NextParse]_vars
SpecSolar == InitHalf /\ [][NextSolar]_vars

-----------------------------------------------------------------------------
(* Properties of the volume controller, checked under SpecVolume *)

Clamp01(x) == IF x < 0 THEN 0 ELSE IF x > Unit THEN Unit ELSE x

\* C1: after a run of duck and unduck calls that starts with duck and ends
\* with unduck (ducks may repeat without an unduck in between), the level
\* written to the hardware by the final unduck and the in-memory level are
\* the level that was current before the first duck.
C1_DuckUnduckRestoresLevel ==
    (last.name = "volume_unduck" /\ duckBase # None)
        => (volume = duckBase /\ hwReg = HwLevel(duckBase))

\* a run duck ... unduck ended at a level other than 0: the register holds
\* that level again, not the ducked value
C1_Witness ==
    /\ last.name = "volume_unduck"
    /\ duckBase # None
    /\ duckBase > 0
    /\ volume = duckBase
    /\ hwReg = HwLevel(duckBase)
    /\ hwReg # HwLevel(0)

\* C6: the in-memory level always lies in [0,1]; volume-set stores
\* min(max(x,0),1) and leaves the controller unmuted, also when it was
\* ducked before the call.
C6_LevelClampedAndUnmuted ==
    /\ 0 <= volume /\ volume <= Unit
    /\ last.name = "volume_set"
           => (volume = Clamp01(PercentOf(last.arg)) /\ ~muted)

\* a volume-set above 1.0 arrived while the controller was ducked
C6_Witness ==
    /\ last.name = "volume_set"
    /\ duckAt # None
    /\ last.arg.has
    /\ last.arg.percent > Unit
    /\ volume = Unit
    /\ ~muted

\* C7 as stated: after duck at level v and then only volume-set calls,
\* unduck writes the level v saved at the duck.
C7_UnduckWritesPreDuckLevel ==
    (last.name = "volume_unduck" /\ last.arg # None)
        => hwReg = HwLevel(last.arg)

\* C7 amended: after duck at level v and then only volume-set calls, unduck
\* writes the current in-memory level: the clamped level of the latest
\* volume-set if one followed the duck, and v if none did.
C7_UnduckWritesCurrentLevel ==
    [][ (last'.name = "volume_unduck" /\ duckAt # None)
          => ( /\ hwReg' = HwLevel(IF last.name = "volume_set"
                                   THEN Clamp01(PercentOf(last.arg))
                                   ELSE duckAt)
               /\ volume' = volume ) ]_vars

\* an unduck after duck and volume-sets that wrote another level than the
\* one current at the duck
C7_Witness ==
    /\ last.name = "volume_unduck"
    /\ last.arg # None
    /\ hwReg = HwLevel(volume)
    /\ hwReg # HwLevel(last.arg)

\* C23 as stated: a volume-get replies with the in-memory level and muted
\* flag, reads and writes no hardware, and changes no state of the
\* controller: the level, the muted flag and the flags later events consult
\* (show-volume, speaking) are after the call what they were before it.
C23_GetIsPureRead ==
    [][ last'.name = "volume_get"
          => /\ reply' = [sent |-> TRUE, percent |-> volume, muted |-> muted]
             /\ volume' = volume
             /\ muted' = muted
             /\ hwReg' = hwReg
             /\ show_volume' = show_volume
             /\ speaking' = speaking ]_vars

-----------------------------------------------------------------------------
(* Properties of concurrent volume handlers, checked under SpecThreads *)

\* some handler was delivered and every delivered handler has returned
AllCompleted ==
    /\ \E t \in Threads : running[t].op # "idle"
    /\ \A t \in Threads : running[t].pc = "done"

\* C16 as stated: once all concurrently delivered volume-set, duck and
\* unduck handlers have completed, the value last written to the hardware
\* is the muted value exactly when the muted flag is true and otherwise the
\* value derived from the in-memory level, as after any serial order.
C16_CompletedAsIfSerial ==
    AllCompleted
        => hwReg = (IF muted THEN HwLevel(0) ELSE HwLevel(volume))

-----------------------------------------------------------------------------
(* Properties of the LED ring feedback, checked under SpecFeedback *)

\* the modes the design expects after each event of Scenario
ScenarioModes ==
    <<"Listening", "Idle", "Thinking", "Speaking", "Speaking", "Idle">>

\* C2: the events listen-start, listen-end, handler-start("WeatherSkill"),
\* audio-output-start, handler-complete("WeatherSkill"), audio-output-end,
\* handled from the initial state, leave the ring in the modes Listening,
\* Idle, Thinking, Speaking, Speaking, Idle.
C2_ScenarioModes == scen >= 1 => mode = ScenarioModes[scen]

\* the whole scenario has been handled
C2_Witness == scen = Len(Scenario) /\ mode = "Idle" /\ ~speaking

\* C3 as stated: a handler-complete that arrives while the mode is Speaking
\* or VolumeDisplay leaves the mode unchanged.
C3_CompleteKeepsSpeakingAndVolumeDisplay ==
    [][ (mode \in {"Speaking", "VolumeDisplay"}
            /\ last'.name = "handler_complete")
          => mode' = mode ]_vars

\* C8 as stated: once the mode is Speaking or VolumeDisplay, listen-start,
\* listen-end, handler-start and handler-complete leave the mode as it is.
C8_OnlyAudioEndLeavesSpeaking ==
    [][ (mode \in {"Speaking", "VolumeDisplay"}
            /\ last'.name \in {"listen_start", "listen_end",
                               "handler_start", "handler_complete"})
          => mode' = mode ]_vars

\* C8 amended: once the mode is Speaking or VolumeDisplay, listen-start,
\* listen-end and handler-start of a handler that is not suppressed still
\* set the mode to Listening, Idle and Thinking; a handler-start of a
\* suppressed handler leaves the mode, a handler-complete leaves a Speaking
\* mode, and audio-output-end sets the mode to Idle.
C8_SpeakingYieldsToListenAndThink ==
    [][ (mode \in {"Speaking", "VolumeDisplay"})
          => ( /\ (last'.name = "handler_complete" /\ mode = "Speaking")
                      => mode' = mode
               /\ last'.name = "listen_start" => mode' = "Listening"
               /\ last'.name = "listen_end" => mode' = "Idle"
               /\ last'.name = "handler_start"
                      => mode' = IF _skip_handler(last'.arg)
                                 THEN mode ELSE "Thinking"
               /\ last'.name = "audio_end" => mode' = "Idle" ) ]_vars

\* a handler-complete of a handler that is not suppressed was handled while
\* the ring showed Speaking
C8_Witness ==
    /\ last.name = "handler_complete"
    /\ ~_skip_handler(last.arg)
    /\ mode = "Speaking"
    /\ speaking

\* C9 as stated: right after audio-output-end the show-volume flag is unset
\* and the mode is Idle.
C9_AudioEndClearsShowVolume ==
    last.name = "audio_end" => (~show_volume /\ mode = "Idle")

\* C10 as stated: a handler-complete of a handler that is not suppressed,
\* arriving while the mode is neither Speaking nor VolumeDisplay, sets the
\* mode to Idle, whatever events came before.
C10_CompleteTurnsRingOff ==
    [][ (last'.name = "handler_complete"
            /\ ~_skip_handler(last'.arg)
            /\ mode \notin {"Speaking", "VolumeDisplay"})
          => mode' = "Idle" ]_vars

-----------------------------------------------------------------------------
\* C11: right after an audio-output-start the mode is VolumeDisplay when the
\* show-volume flag is set and Speaking when it is unset (the handler leaves
\* the flag as it found it): never Speaking with the flag set, never
\* VolumeDisplay with the flag unset.
C11_AudioStartFollowsShowVolume ==
    last.name = "audio_start"
        => /\ show_volume => mode = "VolumeDisplay"
           /\ ~show_volume => mode = "Speaking"
           /\ mode \in {"VolumeDisplay", "Speaking"}

\* an audio-output-start arrived while the flag was set and the ring shows
\* the volume, without the speaking mark
C11_Witness ==
    /\ last.name = "audio_start"
    /\ show_volume
    /\ mode = "VolumeDisplay"
    /\ ~speaking

\* the handler name contains an entry of the suppression list
Suppressed(handler) ==
    \/ Contains(Mark2Name, handler)
    \/ Contains(UpdateDisplay, handler)

\* C12: from any state, a handler-start whose name contains "Mark2" or
\* "TimeSkill.update_display" changes neither the mode nor anything sent to
\* the LED ring; a handler-start with any other name sets the mode to
\* Thinking.
C12_SuppressedStartChangesNothing ==
    [][ last'.name = "handler_start"
          => IF Suppressed(last'.arg)
             THEN /\ mode' = mode
                  /\ palette' = palette
                  /\ volLeds' = volLeds
             ELSE mode' = "Thinking" ]_vars

\* the start of TimeSkill.update_display arrived while the ring showed
\* Speaking, and it still does
C12_Witness ==
    /\ last.name = "handler_start"
    /\ last.arg = UpdateDisplay
    /\ mode = "Speaking"
    /\ palette = <<main_blue, tertiary_blue>>

-----------------------------------------------------------------------------
\* C18 as stated: a volume-set sets the show-volume flag when it carries the
\* show option and leaves the flag as it was when it does not, so that a
\* volume-set without the option, handled while the flag is unset, leaves it
\* unset for the next audio-output-start.
C18_SetShowsOnlyOnRequest ==
    [][ last'.name = "volume_set"
          => show_volume' = (show_volume \/ last'.arg.show) ]_vars

-----------------------------------------------------------------------------
(* Properties of the auto-brightness scheduling, checked under SpecSolar *)

\* C4 as stated: there is never more than one pending timer under one slot
\* name, and while auto-brightness is enabled there is exactly one per slot
\* name once an enable or a firing has been handled.
C4_OneTimerPerSlot ==
    /\ \A n \in Slots : Len(timers[n]) <= 1
    /\ (auto_brightness = "True" /\ last.name = "auto_brightness")
           => \A n \in Slots : Len(timers[n]) = 1
    /\ (auto_brightness = "True" /\ last.name = "slot_fired")
           => Len(timers[last.arg]) = 1

\* the step arms a timer for slot n
Arms(n) ==
    \/ last'.name = "auto_brightness"
    \/ last'.name = "set_brightness" /\ timers' # timers
    \/ last'.name = "slot_fired" /\ last'.arg = n /\ auto_brightness = "True"

\* C5 as stated: whenever a slot timer is armed, on enable and on
\* re-arming after a firing, its instant is strictly greater than the time
\* of arming.
C5_ArmedStrictlyAfterNow ==
    [][ \A n \in Slots :
          Arms(n) => timers'[n][Len(timers'[n])].at > now ]_vars


\* C13 as stated: in every state where auto-brightness is disabled, no slot
\* timer is pending.
C13_NoTimerWhileDisabled ==
    auto_brightness # "True" => \A n \in Slots : timers[n] = <<>>

\* the step leaves slot n with an entry it did not have
ArmedAnew(n) ==
    /\ timers'[n] # timers[n]
    /\ Len(timers'[n]) >= Len(timers[n])

\* C14: handling a slot firing while auto-brightness is disabled changes
\* neither the brightness nor any timer; and from a state where it is
\* disabled the only step that arms a timer is the one that enables it again.
C14_FiringIgnoredWhileDisabled ==
    [][ /\ (last'.name = "slot_fired" /\ auto_brightness # "True")
            => (brightness' = brightness /\ timers' = timers)
        /\ \A n \in Slots :
             (auto_brightness # "True" /\ ArmedAnew(n))
                 => /\ auto_brightness' = "True"
                    /\ last'.name \in {"auto_brightness", "set_brightness"}
      ]_vars

\* the firing of a slot was handled after a manual "50%": the level of that
\* request stays and the slot has no timer
C14_Witness ==
    /\ last.name = "slot_fired"
    /\ auto_brightness = "False"
    /\ brightness = percent_to_level(50)
    /\ timers[last.arg] = <<>>

TargetLevel ==
    [n \in Slots |-> CASE n = "Sunrise" -> SunriseLevel
                       [] n = "Noon" -> NoonLevel
                       [] n = "Sunset" -> SunsetLevel]

\* C15: handling a slot firing while auto-brightness is enabled sets the
\* brightness to the slot's target level without speaking, leaves exactly
\* one timer under that slot's name whatever was pending under it, and
\* leaves the timers of the other two slots as they were.
C15_FiringRearmsOnlyItsSlot ==
    [][ (last'.name = "slot_fired" /\ auto_brightness = "True")
          => /\ brightness' = TargetLevel[last'.arg]
             /\ spoken' = spoken
             /\ Len(timers'[last'.arg]) = 1
             /\ \A m \in Slots \ {last'.arg} : timers'[m] = timers[m]
      ]_vars

\* a firing was handled while enabled, after two enables had left two
\* timers per slot: the fired slot has one timer, another slot still two
C15_Witness ==
    /\ last.name = "slot_fired"
    /\ auto_brightness = "True"
    /\ brightness = TargetLevel[last.arg]
    /\ Len(timers[last.arg]) = 1
    /\ \E m \in Slots : Len(timers[m]) = 2

\* the last step handled an enable: the intent, or a request for "auto"
EnableHandled ==
    \/ last.name = "auto_brightness"
    \/ last.name = "set_brightness" /\ last.arg = AutoName

\* distance from now to the instant the newest timer of a slot is armed for
ArmedDistance(n) == Abs(timers[n][Len(timers[n])].at - now)

\* distance from now to today's instant of a slot, which may have passed
TodayDistance(n) == Abs(Midnight(now) + SunHour[n] - now)

\* the level of the first slot, in the order Sunrise, Noon, Sunset, among
\* those of least distance
LevelOfNearest(Dist(_)) ==
    LET k == CHOOSE k \in 1..Len(SlotNames) :
                 /\ \A j \in 1..Len(SlotNames) :
                        Dist(SlotNames[k]) <= Dist(SlotNames[j])
                 /\ \A j \in 1..(k - 1) :
                        Dist(SlotNames[j]) > Dist(SlotNames[k])
    IN  TargetLevel[SlotNames[k]]

\* C17 as stated: the brightness applied on enable is the target level of
\* the slot whose armed instant is nearest to now, ties going to the earlier
\* slot in the order Sunrise, Noon, Sunset.
C17_NearestArmedInstant ==
    EnableHandled => brightness = LevelOfNearest(ArmedDistance)

\* C17: the brightness applied on enable is the target level of the slot
\* whose instant of today, passed or not, is nearest to now, ties going to
\* the earlier slot in the order Sunrise, Noon, Sunset.
C17_NearestInstantOfToday ==
    EnableHandled => brightness = LevelOfNearest(TodayDistance)

\* enabled three hours after today's sunset: the sunset level is applied,
\* though the sunset timer is the one armed farthest away
C17_Witness ==
    /\ EnableHandled
    /\ now = Midnight(now) + SunHour["Sunset"] + TickHours
    /\ brightness = SunsetLevel
    /\ ArmedDistance("Sunset") > ArmedDistance("Noon")
\* the request has a "%" or the word "percent"
PercentForm(text) == Contains(PercentSign, text) \/ Contains(PercentWord, text)

\* what is left of such a request is no number, or a number outside 0..100
BadPercentNumber(text) ==
    LET n == PyInt(Strip(Remove(Remove(text, PercentSign), PercentWord)))
    IN  ~n.ok \/ n.val < 0 \/ n.val > 100

\* C20 as stated: a brightness request with "%" or "percent" whose number is
\* not numeric or outside 0..100 ends in the parse error, and the request
\* then changes nothing: the brightness, the auto mode and the timers are
\* as before, only the not-found reply is spoken.
C20_BadPercentChangesNothing ==
    [][ (last'.name = "set_brightness"
            /\ PercentForm(last'.arg)
            /\ BadPercentNumber(last'.arg))
          => /\ spoken'.dialog = "brightness.not.found.final"
             /\ brightness' = brightness
             /\ auto_brightness' = auto_brightness
             /\ timers' = timers ]_vars

\* C21 as stated: every brightness level passed to the display, by a manual
\* request with any text, by an enable or by a slot firing, is an integer
\* in 0..30.
C21_LevelWithinRange ==
    brightness # None => brightness \in 0..30

-----------------------------------------------------------------------------
(* Properties of the brightness parser, checked under SpecParse *)

\* round(x / y) for x >= 0 where x / y is never half-way between integers
RoundDiv(x, y) == (2 * x + y) \div (2 * y)

-----------------------------------------------------------------------------
(* Properties of the level conversions, checked under SpecLevels *)

\* C22: for every level l in 0..30, converting l to the percentage the
\* program speaks for it and that percentage back to a level gives a level
\* that differs from l by at most 1; so does a request that names a level
\* below 30 as a plain number, which the parser converts to a percentage.
C22_RoundTripWithinOne ==
    [][ /\ (/\ spoken.dialog = "brightness.set"
            /\ brightness \in Levels
            /\ last'.name = "set_brightness"
            /\ last'.arg = SpokenPercent)
              => Abs(brightness' - brightness) <= 1
        /\ \A l \in 0..29 :
              (last'.name = "set_brightness" /\ last'.arg = IntText(l))
                  => Abs(brightness' - l) <= 1
      ]_vars

\* level 5 was spoken as 16 percent, and the request "16%" gave level 4
C22_Witness ==
    /\ last.name = "set_brightness"
    /\ last.arg = <<"1","6","%">>
    /\ brightness = 4
    /\ spoken = [dialog |-> "brightness.set", val |-> 13]
-----------------------------------------------------------------------------
(* Properties of the LED strip, checked under SpecLed *)

\* the position 0..11 that LED number which wraps to
PositionOf(which) ==
    CHOOSE pos \in 0..11 : \E q \in (0 - 2)..2 : which = pos + 12 * q

\* C24: after any calls of fill_leds, set_leds with a list of 12 and
\* set_led the strip holds exactly 12 colours; fill_leds writes its colour
\* to every position and set_leds the colours of its list; set_led(i, c)
\* writes c to position i mod 12 and leaves the other 11 positions as they
\* were; get_led(i) writes nothing and returns what position i mod 12 holds,
\* which is then the colour most recently written to it.
C24_StripOfTwelve ==
    /\ [](Len(leds) = 12)
    /\ [][ (last'.name = "fill_leds"
               => \A x \in 1..12 : leds'[x] = last'.arg)
           /\ (last'.name = "set_leds"
               => \A x \in 1..12 : leds'[x] = last'.arg[x])
           /\ (last'.name = "set_led"
               => \A x \in 1..12 :
                     leds'[x] = IF x = PositionOf(last'.arg.which) + 1
                                THEN last'.arg.color
                                ELSE leds[x])
           /\ (last'.name = "get_led"
               => (/\ leds' = leds
                   /\ last'.arg.color
                          = leds[PositionOf(last'.arg.which) + 1]))
         ]_vars

\* LED number 13 was set to green on a strip filled with red: position 1
\* holds green, the others red
C24_Witness ==
    /\ last.name = "set_led"
    /\ last.arg = [which |-> 13, color |-> GREEN]
    /\ leds[2] = GREEN
    /\ \A x \in (1..12) \ {2} : leds[x] = RED

=============================================================================
